---- MODULE Spec2Model ----
(***************************************************************************)
(* Model of irc/responsebuffer.go: the ResponseBuffer that queues the      *)
(* replies to one client command and releases them to the client's session *)
(* with labeled-response framing (BATCH + / BATCH -, label tag, ACK) and    *)
(* nested batches.                                                         *)
(*                                                                         *)
(* Encodings.  A batch identifier is a natural number; 0 stands for the    *)
(* empty string (no identifier).  utils.GenerateSecretToken() returns a    *)
(* fresh identifier: the n-th call returns n.  The string "+" + id is the  *)
(* pair <<"+", id>>.  A message's tag map is a function from tag names to  *)
(* values.                                                                 *)
(***************************************************************************)
EXTENDS Integers, Sequences, FiniteSets, TLC

\* ------------------------------------------------------------------ bounds
MaxTokens == 2      \* calls of utils.GenerateSecretToken in one behaviour
MaxAdded == 2       \* caller messages accepted into the queue in one behaviour

\* --------------------------------------------------------------- constants
defaultBatchType == "draft/labeled-response"
LabelTagName == "label"
ServerName == "oragono.test"
NoID == 0

\* capabilities of the session that the buffer reads
LabeledResponse == "labeled-response"
ServerTime == "server-time"

VARIABLES
    Label,          \* rb.Label
    batchID,        \* rb.batchID
    batchType,      \* rb.batchType
    nestedBatches,  \* rb.nestedBatches
    messages,       \* rb.messages
    finalized,      \* rb.finalized
    capabilities,   \* rb.session.capabilities
    sent,           \* messages handed to rb.session.SendRawMessage, in order
    tokens,         \* number of identifiers generated so far
    accepted,       \* messages appended to rb.messages so far, in order
    opener,         \* the method whose call opened the top-level batch
    held,           \* nested batch ids returned to the caller and not yet ended
    lastCall,       \* the caller's last method call and its result
    connected,      \* the session's socket is open
    failed,         \* a SendRawMessage of the last call returned an error
    direct          \* what the last call sent to other sessions, unbuffered

vars == <<Label, batchID, batchType, nestedBatches, messages, finalized,
          capabilities, sent, tokens, accepted, opener, held, lastCall,
          connected, failed, direct>>

\* ----------------------------------------------------------- ircmsg model
NilTags == [k \in {} |-> ""]

MakeMessage(tags, prefix, command, params) ==
    [tags |-> tags, prefix |-> prefix, command |-> command, params |-> params]

HasTag(msg, name) == name \in DOMAIN msg.tags

SetTag(msg, name, value) ==
    [msg EXCEPT !.tags = [k \in (DOMAIN @) \cup {name} |->
                             IF k = name THEN value ELSE @[k]]]

GetTag(msg, name) == IF HasTag(msg, name) THEN msg.tags[name] ELSE ""

\* GetLabel returns the label from the given message.
GetLabel(msg) == GetTag(msg, LabelTagName)

\* ---------------------------------------------------------- session model
\* Session.setTimeTag: attaches the server-time tag when the session has the
\* capability (the zero time stands for "now").
setTimeTag(msg) ==
    IF ServerTime \in capabilities /\ ~HasTag(msg, "time")
    THEN SetTag(msg, "time", "now")
    ELSE msg

\* Session.SendRawMessage as seen from the buffer: the message is handed to
\* the session; the call returns an error when the session's socket is closed.
SendRawMessage(rb, message, blocking) ==
    [rb EXCEPT !.sent = Append(@, message), !.failed = @ \/ ~rb.connected]

\* rb.session, and rb.session.client.Sessions(): the sessions of the client,
\* with the capabilities of the other ones
OwnSession == "s1"
ClientSessions == <<"s1", "s2", "s3">>
SessionCapabilities == [s \in {"s2", "s3"} |-> IF s = "s2" THEN {ServerTime} ELSE {}]

\* Session.Send on another session: builds the message and sends it at once
SessionSend(rb, session, tags, prefix, command, params) ==
    LET msg == MakeMessage(tags, prefix, command, params)
        message == IF ServerTime \in SessionCapabilities[session] /\ ~HasTag(msg, "time")
                   THEN SetTag(msg, "time", "now")
                   ELSE msg
    IN [rb EXCEPT !.direct = Append(@, [session |-> session, message |-> message])]

\* utils.GenerateSecretToken
GenerateSecretToken(rb) == rb.tokens + 1

\* ------------------------------------------------------------- the buffer
\* the buffer, its session and the token source as one value, at the start
\* of a call
Rb == [Label |-> Label, batchID |-> batchID, batchType |-> batchType,
       nestedBatches |-> nestedBatches, messages |-> messages,
       finalized |-> finalized, sent |-> sent, tokens |-> tokens,
       accepted |-> accepted, connected |-> connected, failed |-> FALSE,
       direct |-> <<>>]

NewResponseBuffer ==
    [Label |-> "", batchID |-> NoID, batchType |-> defaultBatchType,
     nestedBatches |-> <<>>, messages |-> <<>>, finalized |-> FALSE,
     sent |-> <<>>, tokens |-> 0, accepted |-> <<>>]

\* AddMessage without the check of finalized
AddMessage_NoCheck(rb, msg) ==
    LET m == IF 0 < Len(rb.nestedBatches)
             THEN SetTag(msg, "batch", rb.nestedBatches[Len(rb.nestedBatches)])
             ELSE msg
    IN [rb EXCEPT !.messages = Append(@, m), !.accepted = Append(@, m)]

AddMessage(rb, msg) ==
    IF rb.finalized
    THEN rb
    ELSE LET m == IF 0 < Len(rb.nestedBatches)
                  THEN SetTag(msg, "batch", rb.nestedBatches[Len(rb.nestedBatches)])
                  ELSE msg
         IN [rb EXCEPT !.messages = Append(@, m), !.accepted = Append(@, m)]

\* Add adds a standard new message to our queue.
Add(rb, tags, prefix, command, params) ==
    AddMessage(rb, MakeMessage(tags, prefix, command, params))

RECURSIVE BroadcastTo(_, _, _, _, _, _)
\* Broadcast, lines 85-89: the loop over the client's sessions
BroadcastTo(rb, sessions, tags, prefix, command, params) ==
    IF sessions = <<>>
    THEN rb
    ELSE LET session == Head(sessions)
             rb1 == IF session # OwnSession
                    THEN SessionSend(rb, session, tags, prefix, command, params)
                    ELSE rb
         IN BroadcastTo(rb1, Tail(sessions), tags, prefix, command, params)

\* Broadcast that sends a copy to every session, the buffer's own included
Broadcast_ToAll(rb, tags, prefix, command, params) ==
    LET rb1 == Add(rb, tags, prefix, command, params)
        rb2 == [rb1 EXCEPT !.direct = Append(@, [session |-> OwnSession,
                     message |-> MakeMessage(tags, prefix, command, params)])]
    IN BroadcastTo(rb2, ClientSessions, tags, prefix, command, params)

\* Broadcast adds a standard new message to our queue, then sends an
\* unlabeled copy to all other sessions.
Broadcast(rb, tags, prefix, command, params) ==
    BroadcastTo(Add(rb, tags, prefix, command, params),
                ClientSessions, tags, prefix, command, params)

\* sendBatchStart without the check of batchID
sendBatchStart_Again(rb, blocking) ==
    LET id == GenerateSecretToken(rb)
        m0 == MakeMessage(NilTags, ServerName, "BATCH", << <<"+", id>>, rb.batchType >>)
        message == IF rb.Label # "" THEN SetTag(m0, LabelTagName, rb.Label) ELSE m0
    IN SendRawMessage([rb EXCEPT !.batchID = id, !.tokens = id], message, blocking)

sendBatchStart(rb, blocking) ==
    IF rb.batchID # NoID
    THEN rb
    ELSE LET id == GenerateSecretToken(rb)
             m0 == MakeMessage(NilTags, ServerName, "BATCH", << <<"+", id>>, rb.batchType >>)
             message == IF rb.Label # "" THEN SetTag(m0, LabelTagName, rb.Label) ELSE m0
         IN SendRawMessage([rb EXCEPT !.batchID = id, !.tokens = id], message, blocking)

\* sendBatchEnd that sends nothing
sendBatchEnd_Skip(rb, blocking) == rb

sendBatchEnd(rb, blocking) ==
    IF rb.batchID = NoID
    THEN rb
    ELSE SendRawMessage(rb, MakeMessage(NilTags, ServerName, "BATCH", << <<"-", rb.batchID>> >>), blocking)

ForceBatchStart(rb, type, blocking) ==
    sendBatchStart([rb EXCEPT !.batchType = type], blocking)

\* StartNestedBatch that pushes the identifier before it enqueues BATCH +
StartNestedBatch_PushFirst(rb, type, params) ==
    LET id == GenerateSecretToken(rb)
        msgParams == << <<"+", id>>, type >> \o params
        rb1 == AddMessage([rb EXCEPT !.tokens = id, !.nestedBatches = Append(@, id)],
                          MakeMessage(NilTags, ServerName, "BATCH", msgParams))
    IN [rb |-> rb1, batchID |-> id]

StartNestedBatch(rb, type, params) ==
    LET id == GenerateSecretToken(rb)
        msgParams == << <<"+", id>>, type >> \o params
        rb1 == AddMessage([rb EXCEPT !.tokens = id],
                          MakeMessage(NilTags, ServerName, "BATCH", msgParams))
    IN [rb |-> [rb1 EXCEPT !.nestedBatches = Append(@, id)], batchID |-> id]

\* EndNestedBatch that pops whatever is on top
EndNestedBatch_AnyTop(rb, id) ==
    IF id = NoID
    THEN rb
    ELSE IF 0 = Len(rb.nestedBatches)
    THEN rb
    ELSE AddMessage([rb EXCEPT !.nestedBatches = SubSeq(@, 1, Len(@) - 1)],
                    MakeMessage(NilTags, ServerName, "BATCH", << <<"-", id>> >>))

\* EndNestedBatch that logs the inconsistency and goes on to enqueue BATCH -
EndNestedBatch_CloseAnyway(rb, id) ==
    IF id = NoID
    THEN rb
    ELSE IF 0 = Len(rb.nestedBatches) \/ rb.nestedBatches[Len(rb.nestedBatches)] # id
    THEN AddMessage(rb, MakeMessage(NilTags, ServerName, "BATCH", << <<"-", id>> >>))
    ELSE AddMessage([rb EXCEPT !.nestedBatches = SubSeq(@, 1, Len(@) - 1)],
                    MakeMessage(NilTags, ServerName, "BATCH", << <<"-", id>> >>))

EndNestedBatch(rb, id) ==
    IF id = NoID
    THEN rb
    ELSE IF 0 = Len(rb.nestedBatches) \/ rb.nestedBatches[Len(rb.nestedBatches)] # id
    THEN rb
    ELSE AddMessage([rb EXCEPT !.nestedBatches = SubSeq(@, 1, Len(@) - 1)],
                    MakeMessage(NilTags, ServerName, "BATCH", << <<"-", id>> >>))

\* flushInternal, line 224
useLabel(rb) == LabeledResponse \in capabilities /\ rb.Label # ""

\* startBatch with 0 < len(rb.messages) in place of 1 < len(rb.messages)
startBatch_OneOrMore(rb, final) == useLabel(rb) /\ (0 < Len(rb.messages) \/ ~final)

\* flushInternal, line 228
startBatch(rb, final) == useLabel(rb) /\ (1 < Len(rb.messages) \/ ~final)

\* flushLabel without the ACK branch
flushLabel_NoAck(rb, final, blocking) ==
    IF startBatch(rb, final)
    THEN sendBatchStart(rb, blocking)
    ELSE IF useLabel(rb) /\ Len(rb.messages) = 1 /\ rb.batchID = NoID /\ final
    THEN [rb EXCEPT !.messages[1] = SetTag(@, LabelTagName, rb.Label)]
    ELSE rb

\* flushLabel that sends the ACK whether or not a batch is open
flushLabel_AckAnyway(rb, final, blocking) ==
    IF startBatch(rb, final)
    THEN sendBatchStart(rb, blocking)
    ELSE IF useLabel(rb) /\ Len(rb.messages) = 0 /\ final
    THEN LET message == SetTag(MakeMessage(NilTags, ServerName, "ACK", <<>>),
                               LabelTagName, rb.Label)
         IN SendRawMessage(rb, setTimeTag(message), blocking)
    ELSE IF useLabel(rb) /\ Len(rb.messages) = 1 /\ rb.batchID = NoID /\ final
    THEN [rb EXCEPT !.messages[1] = SetTag(@, LabelTagName, rb.Label)]
    ELSE rb

\* flushInternal, lines 230-241: open the batch, send the ACK or label the
\* single message
flushLabel(rb, final, blocking) ==
    IF startBatch(rb, final)
    THEN sendBatchStart(rb, blocking)
    ELSE IF useLabel(rb) /\ Len(rb.messages) = 0 /\ rb.batchID = NoID /\ final
    THEN LET message == SetTag(MakeMessage(NilTags, ServerName, "ACK", <<>>),
                               LabelTagName, rb.Label)
         IN SendRawMessage(rb, setTimeTag(message), blocking)
    ELSE IF useLabel(rb) /\ Len(rb.messages) = 1 /\ rb.batchID = NoID /\ final
    THEN [rb EXCEPT !.messages[1] = SetTag(@, LabelTagName, rb.Label)]
    ELSE rb

\* flushTag that attaches no batch tag
flushTag_NoBatch(rb, msg) == setTimeTag(msg)

\* flushTag that sets the top-level batch tag on every message
flushTag_Overwrite(rb, msg) ==
    LET message == setTimeTag(msg)
    IN IF rb.batchID # NoID
       THEN SetTag(message, "batch", rb.batchID)
       ELSE message

\* flushInternal, lines 246-252: what is sent for one queued message
flushTag(rb, msg) ==
    LET message == setTimeTag(msg)
    IN IF rb.batchID # NoID /\ ~HasTag(message, "batch")
       THEN SetTag(message, "batch", rb.batchID)
       ELSE message

\* flushMessages that walks the queue from its end
flushMessages_Reversed(rb, blocking) ==
    [rb EXCEPT !.sent = @ \o [i \in 1..Len(rb.messages) |->
                                 flushTag(rb, rb.messages[Len(rb.messages) + 1 - i])],
               !.failed = @ \/ (rb.messages # <<>> /\ ~rb.connected)]

\* flushInternal, lines 244-256: send each message out
flushMessages(rb, blocking) ==
    [rb EXCEPT !.sent = @ \o [i \in 1..Len(rb.messages) |-> flushTag(rb, rb.messages[i])],
               !.failed = @ \/ (rb.messages # <<>> /\ ~rb.connected)]

\* flushEnd that ends the batch on every flush
flushEnd_AlwaysClose(rb, final, blocking) ==
    [sendBatchEnd(rb, blocking) EXCEPT !.finalized = final]

\* flushInternal, lines 259-262
flushEnd(rb, final, blocking) ==
    IF final
    THEN [sendBatchEnd(rb, blocking) EXCEPT !.finalized = TRUE]
    ELSE rb

\* flushInternal without the check of finalized
flushInternal_NoCheck(rb, final, blocking) ==
    LET rb1 == flushLabel(rb, final, blocking)
        rb2 == flushMessages(rb1, blocking)
        rb3 == flushEnd(rb2, final, blocking)
    IN [rb |-> [rb3 EXCEPT !.messages = <<>>], err |-> "nil"]

\* flushInternal that clears the queue only on the terminal flush
flushInternal_ClearOnFinal(rb, final, blocking) ==
    IF rb.finalized
    THEN [rb |-> rb, err |-> "nil"]
    ELSE LET rb1 == flushLabel(rb, final, blocking)
             rb2 == flushMessages(rb1, blocking)
             rb3 == flushEnd(rb2, final, blocking)
         IN [rb |-> IF final THEN [rb3 EXCEPT !.messages = <<>>] ELSE rb3, err |-> "nil"]

flushInternal(rb, final, blocking) ==
    IF rb.finalized
    THEN [rb |-> rb, err |-> "nil"]
    ELSE LET rb1 == flushLabel(rb, final, blocking)
             rb2 == flushMessages(rb1, blocking)
             rb3 == flushEnd(rb2, final, blocking)
         IN [rb |-> [rb3 EXCEPT !.messages = <<>>], err |-> "nil"]

Send(rb, blocking) == flushInternal(rb, TRUE, blocking)

Flush(rb, blocking) == flushInternal(rb, FALSE, blocking)

\* ------------------------------------------------------------------ inputs
\* A request and the session it came from: an unlabeled request; a labeled
\* request from a session with labeled-response (and server-time); a labeled
\* request from a session without labeled-response.
Requests ==
    { [Label |-> "", capabilities |-> {LabeledResponse}],
      [Label |-> "abc123", capabilities |-> {LabeledResponse, ServerTime}],
      [Label |-> "abc123", capabilities |-> {}] }
BatchTypes == {"chathistory"}
\* the n-th message the caller builds (Add, Notice, AddFromClient, ...): the
\* buffer never reads a message's prefix, command or parameters
CallerMessage(n) == MakeMessage(NilTags, "nick!user@host", "PRIVMSG", <<"#chan", n>>)
\* The buffer is used from the client's own goroutine, where Send and Flush
\* are called with blocking = true; the buffer hands the flag to the session
\* and reads it nowhere.
BlockingModes == {TRUE}
\* The identifiers a caller passes to EndNestedBatch: none, the one of the
\* innermost batch it holds, or (out of turn) the oldest other one.
Innermost == IF held = <<>> THEN {} ELSE {held[Len(held)]}
OutOfTurn == {id \in (1..tokens) \ Innermost : \A j \in (1..tokens) \ Innermost : id <= j}
BatchIDs == {NoID} \cup Innermost \cup OutOfTurn

\* ----------------------------------------------------------------- actions
\* A behaviour generates at most MaxTokens identifiers and accepts at most
\* MaxAdded messages from the caller (the BATCH messages of nested batches
\* come on top).
Added(acc) == Cardinality({i \in DOMAIN acc : acc[i].command # "BATCH"})

Bounded(rb) == rb.tokens <= MaxTokens /\ Added(rb.accepted) <= MaxAdded

\* The caller of StartNestedBatch keeps the returned id and hands it back to
\* EndNestedBatch; it ends its batches innermost first.
CallerHolds(h, call) ==
    IF call.op = "StartNestedBatch"
    THEN Append(h, call.result)
    ELSE IF call.op = "EndNestedBatch" /\ h # <<>> /\ h[Len(h)] = call.arg
    THEN SubSeq(h, 1, Len(h) - 1)
    ELSE h

\* the buffer after a call, and what the caller saw
Install(rb, call) ==
    /\ Label' = rb.Label
    /\ batchID' = rb.batchID
    /\ batchType' = rb.batchType
    /\ nestedBatches' = rb.nestedBatches
    /\ messages' = rb.messages
    /\ finalized' = rb.finalized
    /\ sent' = rb.sent
    /\ tokens' = rb.tokens
    /\ accepted' = rb.accepted
    /\ opener' = IF batchID = NoID /\ rb.batchID # NoID THEN call.op ELSE opener
    /\ held' = CallerHolds(held, call)
    /\ lastCall' = call
    /\ failed' = rb.failed
    /\ direct' = rb.direct
    /\ UNCHANGED <<capabilities, connected>>

Init ==
    /\ \E request \in Requests :
          /\ Label = request.Label
          /\ capabilities = request.capabilities
          /\ batchID = NewResponseBuffer.batchID
          /\ batchType = NewResponseBuffer.batchType
          /\ nestedBatches = NewResponseBuffer.nestedBatches
          /\ messages = NewResponseBuffer.messages
          /\ finalized = NewResponseBuffer.finalized
          /\ sent = NewResponseBuffer.sent
          /\ tokens = NewResponseBuffer.tokens
          /\ accepted = NewResponseBuffer.accepted
    /\ opener = "none"
    /\ held = <<>>
    /\ lastCall = [op |-> "NewResponseBuffer", arg |-> NoID, result |-> ""]
    /\ connected = TRUE
    /\ failed = FALSE
    /\ direct = <<>>

DoAddMessage ==
    \E msg \in {CallerMessage(Added(accepted) + 1)} :
        LET rb == AddMessage(Rb, msg)
        IN /\ Bounded(rb)
           /\ Install(rb, [op |-> "AddMessage", arg |-> NoID, result |-> ""])

DoForceBatchStart ==
    \E type \in BatchTypes, blocking \in BlockingModes :
        LET rb == ForceBatchStart(Rb, type, blocking)
        IN /\ Bounded(rb)
           /\ Install(rb, [op |-> "ForceBatchStart", arg |-> NoID, result |-> ""])

DoStartNestedBatch ==
    \E type \in BatchTypes :
        LET r == StartNestedBatch(Rb, type, <<"#chan">>)
        IN /\ Bounded(r.rb)
           /\ Install(r.rb, [op |-> "StartNestedBatch", arg |-> NoID, result |-> r.batchID])

DoEndNestedBatch ==
    \E id \in BatchIDs :
        LET rb == EndNestedBatch(Rb, id)
        IN /\ Bounded(rb)
           /\ Install(rb, [op |-> "EndNestedBatch", arg |-> id, result |-> ""])

DoSend ==
    \E blocking \in BlockingModes :
        LET r == Send(Rb, blocking)
        IN /\ Bounded(r.rb)
           /\ Install(r.rb, [op |-> "Send", arg |-> NoID, result |-> r.err])

DoFlush ==
    \E blocking \in BlockingModes :
        LET r == Flush(Rb, blocking)
        IN /\ Bounded(r.rb)
           /\ Install(r.rb, [op |-> "Flush", arg |-> NoID, result |-> r.err])

Next ==
    \/ DoAddMessage
    \/ DoForceBatchStart
    \/ DoStartNestedBatch
    \/ DoEndNestedBatch
    \/ DoSend
    \/ DoFlush

Spec == Init /\ [][Next]_vars

\* The session's socket closes (the client went away, or its send queue
\* overflowed); from then on SendRawMessage returns an error.
DoDisconnect ==
    /\ connected
    /\ connected' = FALSE
    /\ UNCHANGED <<Label, batchID, batchType, nestedBatches, messages, finalized,
                   capabilities, sent, tokens, accepted, opener, held, lastCall,
                   failed, direct>>

NextFailure ==
    \/ Next
    \/ DoDisconnect

\* the buffer with a session that can fail
SpecFailure == Init /\ [][NextFailure]_vars

DoBroadcast ==
    \E msg \in {CallerMessage(Added(accepted) + 1)} :
        LET rb == Broadcast(Rb, msg.tags, msg.prefix, msg.command, msg.params)
        IN /\ Bounded(rb)
           /\ Install(rb, [op |-> "Broadcast", arg |-> NoID, result |-> ""])

NextBroadcast ==
    \/ Next
    \/ DoBroadcast

\* the buffer of a client with several sessions
SpecBroadcast == Init /\ [][NextBroadcast]_vars

\* ------------------------------------------------------- reading the output
IsBatchStart(m, id) == m.command = "BATCH" /\ m.params[1] = <<"+", id>>

IsBatchEnd(m, id) == m.command = "BATCH" /\ m.params[1] = <<"-", id>>

IsAck(m) == m.command = "ACK"

\* m carries the tag batch=id
InBatch(m, id) == HasTag(m, "batch") /\ m.tags["batch"] = id

\* the label is in use: it is set and the session has the capability
LabelInUse == Label # "" /\ LabeledResponse \in capabilities

\* m is message msg as queued, with nothing changed but tags added
SameMessage(m, msg) ==
    /\ m.command = msg.command
    /\ m.prefix = msg.prefix
    /\ m.params = msg.params
    /\ \A k \in DOMAIN msg.tags : HasTag(m, k) /\ (k # LabelTagName => m.tags[k] = msg.tags[k])

\* the identifiers of the nested batches whose BATCH + entered the queue
NestedStarted ==
    {accepted[i].params[1][2] :
        i \in {j \in DOMAIN accepted : /\ accepted[j].command = "BATCH"
                                       /\ accepted[j].params[1][1] = "+"}}

\* top-level framing in the session's output: the positions of the BATCH +id
\* and of the BATCH -id that did not pass through the queue
TopStarts ==
    LET nested == NestedStarted
    IN {i \in DOMAIN sent : /\ sent[i].command = "BATCH"
                            /\ sent[i].params[1][1] = "+"
                            /\ sent[i].params[1][2] \notin nested}

TopEnds ==
    LET nested == NestedStarted
    IN {i \in DOMAIN sent : /\ sent[i].command = "BATCH"
                            /\ sent[i].params[1][1] = "-"
                            /\ sent[i].params[1][2] \notin nested}

\* the buffer's own fields and its session's output
rbVars == <<Label, batchID, batchType, nestedBatches, messages, finalized, sent, accepted>>

\* ------------------------------------------------------------------ claims

\* C1 as stated: after enqueues on a fresh buffer and a Send (the top-level
\* batch, if any, was opened by that Send), the session received as many
\* messages as were enqueued, plus a BATCH + and a BATCH - exactly when a
\* batch was opened.
C1_SentCountOriginal ==
    (finalized /\ opener \in {"none", "Send"}) =>
        Len(sent) = Len(accepted) + (IF batchID # NoID THEN 2 ELSE 0)

\* C1 amended: the count is the number enqueued, plus one BATCH + (first) and
\* one BATCH - (last) exactly when a batch was opened, plus one ACK exactly
\* when the label is in use and nothing was enqueued.
C1_SentCount ==
    (finalized /\ opener \in {"none", "Send"}) =>
        /\ Len(sent) = Len(accepted)
                       + (IF batchID # NoID THEN 2 ELSE 0)
                       + (IF LabelInUse /\ accepted = <<>> THEN 1 ELSE 0)
        /\ Cardinality(TopStarts) = (IF batchID # NoID THEN 1 ELSE 0)
        /\ Cardinality(TopEnds) = (IF batchID # NoID THEN 1 ELSE 0)
        /\ batchID # NoID =>
              \E i, j \in DOMAIN sent :
                  /\ i < j
                  /\ IsBatchStart(sent[i], batchID)
                  /\ IsBatchEnd(sent[j], batchID)
                  /\ \A k \in DOMAIN sent : i <= k /\ k <= j

C1_Witness ==
    /\ finalized
    /\ opener = "Send"
    /\ lastCall.op = "Send"
    /\ Len(accepted) = 2
    /\ Len(sent) = 4

\* C2: with the label in use, Send on a usable buffer with an empty queue and
\* no top-level batch transmits exactly one message, an ACK with the label
\* tag, and no batch framing.
C2_AckOnly ==
    [][(lastCall'.op = "Send" /\ LabelInUse /\ ~finalized
            /\ messages = <<>> /\ batchID = NoID) =>
        /\ Len(sent') = Len(sent) + 1
        /\ SubSeq(sent', 1, Len(sent)) = sent
        /\ IsAck(sent'[Len(sent')])
        /\ GetLabel(sent'[Len(sent')]) = Label
        /\ ~HasTag(sent'[Len(sent')], "batch")
        /\ batchID' = NoID]_vars

C2_Witness ==
    /\ lastCall.op = "Send"
    /\ LabelInUse
    /\ accepted = <<>>
    /\ Len(sent) = 1
    /\ IsAck(sent[1])

\* C3: with the label in use, Send on a usable buffer with one queued message
\* and no top-level batch transmits exactly that message, with the label tag,
\* and neither batch framing nor an ACK.
C3_SingleLabeled ==
    [][(lastCall'.op = "Send" /\ LabelInUse /\ ~finalized
            /\ Len(messages) = 1 /\ batchID = NoID) =>
        /\ Len(sent') = Len(sent) + 1
        /\ SubSeq(sent', 1, Len(sent)) = sent
        /\ SameMessage(sent'[Len(sent')], messages[1])
        /\ GetLabel(sent'[Len(sent')]) = Label
        /\ ~HasTag(sent'[Len(sent')], "batch")
        /\ batchID' = NoID]_vars

C3_Witness ==
    /\ lastCall.op = "Send"
    /\ LabelInUse
    /\ Len(accepted) = 1
    /\ Len(sent) = 1
    /\ sent[1].command = "PRIVMSG"
    /\ GetLabel(sent[1]) = Label

\* the queue holds no message of a nested batch and none is active
NoNestedBatch ==
    /\ nestedBatches = <<>>
    /\ \A i \in DOMAIN messages : ~HasTag(messages[i], "batch")

\* what this call handed to the session
Transmitted == SubSeq(sent', Len(sent) + 1, Len(sent'))

\* the queued messages as C4 expects them on the wire
Wrapped(out, id) ==
    /\ Len(out) = Len(messages) + 1
    /\ \A i \in DOMAIN messages :
          /\ SameMessage(out[i], messages[i])
          /\ InBatch(out[i], id)
          /\ ~HasTag(out[i], LabelTagName)
    /\ IsBatchEnd(out[Len(out)], id)

\* C4 as stated: with the label in use, Send on a usable buffer with two or
\* more queued messages transmits BATCH +id with the label, then every queued
\* message tagged batch=id and without the label, then BATCH -id.
C4_BatchWrapOriginal ==
    [][(lastCall'.op = "Send" /\ LabelInUse /\ ~finalized
            /\ Len(messages) >= 2 /\ NoNestedBatch) =>
        /\ SubSeq(sent', 1, Len(sent)) = sent
        /\ Transmitted # <<>>
        /\ IsBatchStart(Transmitted[1], batchID')
        /\ GetLabel(Transmitted[1]) = Label
        /\ Wrapped(Tail(Transmitted), batchID')]_vars

\* C4 amended: the BATCH +id with the label is transmitted by this Send when
\* no top-level batch is open yet, and was transmitted before it otherwise;
\* the rest is as stated.
C4_BatchWrap ==
    [][(lastCall'.op = "Send" /\ LabelInUse /\ ~finalized
            /\ Len(messages) >= 2 /\ NoNestedBatch) =>
        /\ SubSeq(sent', 1, Len(sent)) = sent
        /\ batchID' # NoID
        /\ batchID # NoID => batchID' = batchID
        /\ \E i \in DOMAIN sent' :
              /\ IsBatchStart(sent'[i], batchID')
              /\ GetLabel(sent'[i]) = Label
              /\ IF batchID = NoID
                 THEN i = Len(sent) + 1
                      /\ Wrapped(SubSeq(sent', i + 1, Len(sent')), batchID')
                 ELSE i <= Len(sent)
                      /\ Wrapped(Transmitted, batchID')]_vars

C4_Witness ==
    /\ lastCall.op = "Send"
    /\ LabelInUse
    /\ opener = "Send"
    /\ Len(accepted) = 2
    /\ Len(sent) = 4
    /\ IsBatchStart(sent[1], batchID)
    /\ GetLabel(sent[1]) = Label
    /\ InBatch(sent[2], batchID)
    /\ IsBatchEnd(sent[4], batchID)


\* C5: the top-level batch is opened at most once and closed at most once,
\* batchID never changes once it is set, and a second open (ForceBatchStart
\* on an open batch) transmits nothing and keeps the identifier.
C5_OpenedOnce ==
    /\ [](/\ Cardinality(TopStarts) <= 1
          /\ Cardinality(TopEnds) <= 1
          /\ \A i \in TopStarts : IsBatchStart(sent[i], batchID)
          /\ \A i \in TopEnds : IsBatchEnd(sent[i], batchID))
    /\ [][batchID # NoID => batchID' = batchID]_vars
    /\ [][(lastCall'.op = "ForceBatchStart" /\ batchID # NoID) => sent' = sent]_vars

C5_Witness ==
    /\ lastCall.op = "ForceBatchStart"
    /\ opener = "Flush"
    /\ batchID # NoID
    /\ Cardinality(TopStarts) = 1

\* C6: Flush never sets finalized and never transmits a top-level BATCH -;
\* when a Flush opened the top-level batch, the Send that ends the buffer
\* transmits BATCH -id for that batch as its last message, whatever is queued.
C6_FlushThenSend ==
    /\ [][lastCall'.op = "Flush" =>
            /\ finalized' = finalized
            /\ SubSeq(sent', 1, Len(sent)) = sent
            /\ \A i \in DOMAIN Transmitted :
                  ~(Transmitted[i].command = "BATCH"
                    /\ Transmitted[i].params[1] = <<"-", batchID'>>)]_vars
    /\ [][(lastCall'.op = "Send" /\ ~finalized /\ opener = "Flush") =>
            /\ batchID # NoID
            /\ Transmitted # <<>>
            /\ IsBatchEnd(sent'[Len(sent')], batchID)
            /\ Len(Transmitted) = Len(messages) + 1]_vars

C6_Witness ==
    /\ lastCall.op = "Send"
    /\ opener = "Flush"
    /\ finalized
    /\ Len(accepted) = 1
    /\ Len(sent) = 3
    /\ IsBatchStart(sent[1], batchID)
    /\ IsBatchEnd(sent[3], batchID)

\* C7: while the caller ends its nested batches innermost first with the
\* identifiers StartNestedBatch returned, the stack holds exactly the batches
\* started and not yet ended: each such EndNestedBatch pops the top, and the
\* stack is empty again after the last one.
C7_StackBalance == nestedBatches = held

C7_Witness ==
    /\ lastCall.op = "EndNestedBatch"
    /\ lastCall.arg # NoID
    /\ nestedBatches = <<>>
    /\ Cardinality(NestedStarted) = 2
    /\ Cardinality({i \in DOMAIN accepted : accepted[i].command = "BATCH"}) = 4
    /\ accepted[1].params[1] = <<"+", 1>>
    /\ accepted[2].params[1] = <<"+", 2>>

\* C8: EndNestedBatch with an identifier that is not the top of the stack
\* (or with the stack empty), and EndNestedBatch with the empty identifier,
\* change nothing: no pop, no message enqueued, nothing transmitted.
C8_MismatchedEnd ==
    [][(/\ lastCall'.op = "EndNestedBatch"
        /\ \/ lastCall'.arg = NoID
           \/ nestedBatches = <<>>
           \/ nestedBatches[Len(nestedBatches)] # lastCall'.arg) =>
        UNCHANGED rbVars]_vars

C8_Witness ==
    /\ lastCall.op = "EndNestedBatch"
    /\ lastCall.arg # NoID
    /\ nestedBatches # <<>>
    /\ nestedBatches[Len(nestedBatches)] # lastCall.arg
    /\ ~finalized
    /\ messages # <<>>

\* C9: AddMessage on a finalized buffer changes no field of the buffer and
\* transmits nothing: the message is dropped.
C9_AddAfterFinal ==
    [][(lastCall'.op = "AddMessage" /\ finalized) => UNCHANGED rbVars]_vars

C9_Witness == lastCall.op = "AddMessage" /\ finalized

\* C10: Send and Flush on a finalized buffer transmit nothing, change no
\* field of the buffer and return no error; finalized never becomes false.
C10_FlushAfterFinal ==
    /\ [][(lastCall'.op \in {"Send", "Flush"} /\ finalized) =>
            (UNCHANGED rbVars /\ lastCall'.result = "nil")]_vars
    /\ [][finalized => finalized']_vars

C10_Witness ==
    /\ lastCall.op \in {"Send", "Flush"}
    /\ finalized
    /\ opener = "ForceBatchStart"
    /\ sent # <<>>
    /\ ~IsBatchEnd(sent[Len(sent)], batchID)

\* C11: when a transmission fails during Send or Flush, the call returns an
\* error to its caller.
C11_ErrorSurfaced ==
    [][(lastCall'.op \in {"Send", "Flush"} /\ failed') => lastCall'.result # "nil"]_vars

\* C12: a message handed to the session carries the label tag only when the
\* session has the labeled-response capability (the caller's messages carry
\* no label tag of their own).
C12_LabelNeedsCapability ==
    \A i \in DOMAIN sent :
        HasTag(sent[i], LabelTagName) => LabeledResponse \in capabilities

\* C13: a message enqueued while the nested-batch stack is not empty is
\* queued with batch = the top of the stack (and with no batch tag when the
\* stack is empty); a flush transmits every queued message with the batch tag
\* it was queued with, and gives the top-level batch id only to the messages
\* queued without a batch tag, and only when a top-level batch is open.
C13_NestedTagKept ==
    /\ [][(lastCall'.op = "AddMessage" /\ ~finalized) =>
            /\ Len(accepted') = Len(accepted) + 1
            /\ messages' = Append(messages, accepted'[Len(accepted')])
            /\ IF nestedBatches # <<>>
               THEN InBatch(accepted'[Len(accepted')], nestedBatches[Len(nestedBatches)])
               ELSE ~HasTag(accepted'[Len(accepted')], "batch")]_vars
    /\ [][(lastCall'.op \in {"Send", "Flush"} /\ ~finalized) =>
            LET off == Len(sent) + (IF batchID = NoID /\ batchID' # NoID THEN 1 ELSE 0)
            IN /\ Len(sent') >= off + Len(messages)
               /\ \A i \in DOMAIN messages :
                     /\ SameMessage(sent'[off + i], messages[i])
                     /\ IF HasTag(messages[i], "batch")
                        THEN InBatch(sent'[off + i], messages[i].tags["batch"])
                        ELSE IF batchID' # NoID
                        THEN InBatch(sent'[off + i], batchID')
                        ELSE ~HasTag(sent'[off + i], "batch")]_vars

C13_Witness ==
    /\ lastCall.op \in {"Send", "Flush"}
    /\ batchID # NoID
    /\ \E i, j \in DOMAIN sent :
          /\ sent[i].command = "PRIVMSG"
          /\ HasTag(sent[i], "batch")
          /\ sent[i].tags["batch"] \in NestedStarted
          /\ sent[i].tags["batch"] # batchID
          /\ sent[j].command = "PRIVMSG"
          /\ InBatch(sent[j], batchID)

\* C14: after every Send and every Flush returns, the message queue is empty,
\* whether or not the flush was the terminal one and whatever the label and
\* the capabilities are.
C14_QueueCleared ==
    lastCall.op \in {"Send", "Flush"} => messages = <<>>

C14_Witness ==
    /\ lastCall.op = "Flush"
    /\ ~finalized
    /\ messages = <<>>
    /\ Len(accepted) = 2
    /\ Len(sent) >= 2
    /\ ~LabelInUse

\* the sessions of the client other than the buffer's own
OtherSessions == {ClientSessions[i] : i \in DOMAIN ClientSessions} \ {OwnSession}

\* C15: Broadcast transmits nothing to the buffer's own session and, on a
\* usable buffer, appends the message to the queue; it sends exactly one copy
\* to every other session of the client and none to the buffer's own, and
\* the copies carry neither the label tag nor a batch tag.  The own session
\* gets caller messages only from Send and Flush, which transmit every queued
\* message.
C15_Broadcast ==
    /\ [][lastCall'.op = "Broadcast" =>
            LET msg == CallerMessage(Added(accepted) + 1)
            IN /\ sent' = sent
               /\ ~finalized =>
                     /\ Len(messages') = Len(messages) + 1
                     /\ SubSeq(messages', 1, Len(messages)) = messages
                     /\ SameMessage(messages'[Len(messages')], msg)
               /\ Len(direct') = Cardinality(OtherSessions)
               /\ \A s \in OtherSessions : \E i \in DOMAIN direct' : direct'[i].session = s
               /\ \A i \in DOMAIN direct' :
                     /\ direct'[i].session # OwnSession
                     /\ SameMessage(direct'[i].message, msg)
                     /\ ~HasTag(direct'[i].message, LabelTagName)
                     /\ ~HasTag(direct'[i].message, "batch")]_vars
    /\ [][lastCall'.op \notin {"Send", "Flush"} =>
            \A k \in DOMAIN Transmitted : Transmitted[k].command = "BATCH"]_vars
    /\ [][(lastCall'.op \in {"Send", "Flush"} /\ ~finalized) =>
            \A i \in DOMAIN messages :
                \E k \in DOMAIN Transmitted : SameMessage(Transmitted[k], messages[i])]_vars

C15_Witness ==
    /\ lastCall.op = "Broadcast"
    /\ ~finalized
    /\ LabelInUse
    /\ batchID # NoID
    /\ nestedBatches # <<>>
    /\ Len(direct) = 2
    /\ messages # <<>>
    /\ messages[Len(messages)].command = "PRIVMSG"
    /\ InBatch(messages[Len(messages)], nestedBatches[Len(nestedBatches)])
    /\ ~HasTag(direct[1].message, "batch")

\* the session's output without the ACK and the top-level BATCH + and BATCH -:
\* what reached the session through the queue
Relayed ==
    LET nested == NestedStarted
    IN SelectSeq(sent, LAMBDA m : /\ ~IsAck(m)
                                  /\ ~(m.command = "BATCH" /\ m.params[1][2] \notin nested))

\* C16: the messages transmitted from the queue followed by the messages still
\* queued are exactly the messages accepted, each once and in the order of
\* their acceptance; once the buffer is finalized nothing is left in the queue.
C16_ExactlyOnceInOrder ==
    LET relayed == Relayed
    IN /\ Len(relayed) + Len(messages) = Len(accepted)
       /\ \A i \in DOMAIN relayed : SameMessage(relayed[i], accepted[i])
       /\ \A i \in DOMAIN messages : messages[i] = accepted[Len(relayed) + i]
       /\ finalized => messages = <<>>

C16_Witness ==
    /\ finalized
    /\ lastCall.op = "Send"
    /\ opener = "Flush"
    /\ Len(accepted) = 4
    /\ Len(Relayed) = 4
    /\ Len(sent) = 6
    /\ sent[2].command = "BATCH"
    /\ sent[3].command = "PRIVMSG"
    /\ sent[5].command = "PRIVMSG"

\* the nested batches open when the k-th accepted message was enqueued, as
\* positions of their BATCH + in accepted; the batch that a BATCH - ends is
\* not among them
OpenAt(k) ==
    {i \in 1..(k - 1) :
        /\ accepted[i].command = "BATCH"
        /\ accepted[i].params[1][1] = "+"
        /\ \A j \in (i + 1)..(k - 1) : ~IsBatchEnd(accepted[j], accepted[i].params[1][2])
        /\ ~IsBatchEnd(accepted[k], accepted[i].params[1][2])}

\* C17: every accepted message carries, as queued, batch = the id of the
\* innermost nested batch open around it, and no batch tag when there is none;
\* for the BATCH +id and BATCH -id of a nested batch that is the enclosing
\* batch, never id itself.  A batch tag attached later, at the flush, is the
\* id of the top-level batch.
C17_NestedFraming ==
    /\ \A k \in DOMAIN accepted :
          /\ IF OpenAt(k) = {}
             THEN ~HasTag(accepted[k], "batch")
             ELSE \E i \in OpenAt(k) :
                     /\ \A j \in OpenAt(k) : j <= i
                     /\ InBatch(accepted[k], accepted[i].params[1][2])
          /\ accepted[k].command = "BATCH" => ~InBatch(accepted[k], accepted[k].params[1][2])
    /\ LET relayed == Relayed
       IN \A k \in DOMAIN relayed :
             /\ relayed[k].command = "BATCH" => ~InBatch(relayed[k], relayed[k].params[1][2])
             /\ (HasTag(relayed[k], "batch") /\ ~HasTag(accepted[k], "batch")) =>
                   (batchID # NoID /\ InBatch(relayed[k], batchID))

C17_Witness ==
    /\ lastCall.op = "EndNestedBatch"
    /\ nestedBatches = <<>>
    /\ Len(accepted) = 6
    /\ IsBatchStart(accepted[1], 1) /\ ~HasTag(accepted[1], "batch")
    /\ InBatch(accepted[2], 1)
    /\ IsBatchStart(accepted[3], 2) /\ InBatch(accepted[3], 1)
    /\ InBatch(accepted[4], 2)
    /\ IsBatchEnd(accepted[5], 2) /\ InBatch(accepted[5], 1)
    /\ IsBatchEnd(accepted[6], 1) /\ ~HasTag(accepted[6], "batch")

\* C18: once the buffer is finalized, every top-level BATCH +id in the
\* session's output is followed by its BATCH -id.
C18_BatchClosed ==
    finalized =>
        \A i \in TopStarts :
            \E j \in TopEnds : i < j /\ IsBatchEnd(sent[j], sent[i].params[1][2])

\* the positions of the session's output that carry the label tag
Labeled(out) == {i \in DOMAIN out : HasTag(out[i], LabelTagName)}

\* C19: with the label in use, at most one message of the output carries the
\* label tag while the buffer is usable, and when the first Send returns
\* exactly one does: the top-level BATCH +, the ACK or the single reply.
C19_OneLabel ==
    /\ []((LabelInUse /\ ~finalized) => Cardinality(Labeled(sent)) <= 1)
    /\ [][(lastCall'.op = "Send" /\ LabelInUse /\ ~finalized) =>
            /\ Cardinality(Labeled(sent')) = 1
            /\ \A i \in Labeled(sent') :
                  /\ GetLabel(sent'[i]) = Label
                  /\ \/ IsBatchStart(sent'[i], batchID') /\ batchID' # NoID
                     \/ IsAck(sent'[i]) /\ Len(sent') = 1
                     \/ /\ Len(sent') = 1
                        /\ Len(accepted') = 1
                        /\ SameMessage(sent'[i], accepted'[1])]_vars

C19_Witness ==
    /\ lastCall.op = "Send"
    /\ LabelInUse
    /\ opener = "ForceBatchStart"
    /\ Len(accepted) = 1
    /\ Len(sent) = 3
    /\ Labeled(sent) = {1}
    /\ IsBatchStart(sent[1], batchID)

\* C20: every identifier on the nested-batch stack is the identifier of a
\* BATCH + that was accepted into the queue.
C20_StackBacked ==
    \A i \in DOMAIN nestedBatches : nestedBatches[i] \in NestedStarted

====
